---- MODULE Spec2Model ----
(***************************************************************************)
(* Model of path_finder.py: the breadth-first route search over `routes`   *)
(* (lines 243-291) and the assembly of itineraries from the weekly         *)
(* timetable `flights` (find_flights, find_nearest_flight,                 *)
(* timedelta_to_day_hour_minutes).                                         *)
(*                                                                         *)
(* A datetime.timedelta is modelled by its total number of minutes (every  *)
(* timedelta of the program is a whole number of minutes >= 0).            *)
(***************************************************************************)
EXTENDS Integers, Sequences, FiniteSets, TLC

VARIABLES
    routes,               \* routes[c][n]: flight duration of the edge c - n
    flights,              \* the timetable, sorted (line 235)
    start_vertex,
    end_vertex,
    pc,                   \* position of the script
    n_routes,             \* hop count per city, None when unset
    queue,
    parents,
    path_exists,
    cur_v,
    pending,              \* neighbours of cur_v the for loop has not visited yet
    path,
    parent,
    next_city,
    total_time_on_board,
    output,               \* what the script prints: "none", "NotFound", "route"
    index,                \* find_flights: loop variable of line 126
    pos,                  \* find_flights: 0-based position in the path (line 148)
    city_from,
    city_to,
    start_time,
    time_since_start,
    this_option_price,
    this_option_flights,
    available_flights,
    legs,                 \* history: locals of the legs of the option being built
    log                   \* history: legs of every option appended so far

routeVars == <<start_vertex, end_vertex, n_routes, queue, parents, path_exists,
               cur_v, pending, parent, next_city, total_time_on_board, output>>
flightVars == <<index, pos, city_from, city_to, start_time, time_since_start,
                this_option_price, this_option_flights, available_flights,
                legs, log>>
vars == <<routes, flights, pc, path, routeVars, flightVars>>

\* None, for the variables that hold a city
None == "None"
\* None, for the hop count of a city (n_routes[city] is None)
NoHops == -1

\* ------------------------------ bounds ---------------------------------
\* flights per week in one direction of an edge (the program draws 1..7)
MaxFlights == 2
\* edges of the generated network (the program builds 25)
MaxEdges == 5
\* cities of the network in the route search
RouteCities == {"A", "B", "C", "D", "E"}
\* the longest path handed to find_flights
ChainCities == <<"A", "B", "C", "D">>
\* weekday and time-of-day (minutes) of the drawn departures
WeekDaySlots == {1, 7}
TimeSlots == {540, 1439}
\* flight durations in minutes (the program draws 90..540)
Durations == {120, 540}
\* the random markup in percent (the program draws 1..30)
Markups == {30}

\* ------------------------------ time -----------------------------------
cities == <<"A", "B", "C", "D", "E", "F", "G", "H", "I",
            "J", "K", "L", "M", "N", "O", "P", "Q", "R",
            "S", "T", "U", "V", "W", "X", "Y", "Z">>

week_days == 1..7

timedelta(days, hours, minutes) == days * 1440 + hours * 60 + minutes

td_days(td) == td \div 1440

td_seconds(td) == (td % 1440) * 60

timedelta_to_day_hour_minutes(time_pos) ==
    LET week_day0 == td_days(time_pos)
        week_day == IF week_day0 > 7 THEN week_day0 % 7 ELSE week_day0
        hours0 == td_seconds(time_pos) \div 3600
        hours == IF hours0 > 24 THEN hours0 % 24 ELSE hours0
        minutes == (td_seconds(time_pos) \div 60) % 60
    IN  <<week_day, hours, minutes>>

\* ------------------------- data generation -----------------------------
set_price(minutes, pct) == (30 * minutes * (100 + pct)) \div 100

\* the rows make_schedule appends for the departures `slots` of the direct
\* direction: each direct flight and its return flight
make_schedule(origin_city, destination_city, travel_time, slots, pct) ==
    LET direct(s) == [city_from |-> origin_city, city_to |-> destination_city,
                      week_day |-> s[1], time |-> s[2],
                      price |-> set_price(td_seconds(travel_time) \div 60, pct)]
        backward(s) ==
            LET time_since_week_start ==
                    timedelta(s[1], 0, 0) + s[2] + travel_time + timedelta(0, 5, 0)
                d0 == td_days(time_since_week_start)
                backward_week_day == IF d0 > 7 THEN d0 % 7 ELSE d0
                h0 == td_seconds(time_since_week_start) \div 3600
                backward_hours == IF h0 > 24 THEN h0 % 24 ELSE h0
                backward_minutes == (td_seconds(time_since_week_start) \div 60) % 60
            IN  [city_from |-> destination_city, city_to |-> origin_city,
                 week_day |-> backward_week_day,
                 time |-> timedelta(0, backward_hours, backward_minutes),
                 price |-> set_price(td_seconds(travel_time) \div 60, pct)]
    IN  {direct(s) : s \in slots} \cup {backward(s) : s \in slots}

CityIndex(c) == CHOOSE i \in 1..Len(cities) : cities[i] = c

\* the order of flights.sort_values(by=[city_from, city_to, week_day, time])
RowBefore(f, g) ==
    LET kf == <<CityIndex(f.city_from), CityIndex(f.city_to), f.week_day, f.time>>
        kg == <<CityIndex(g.city_from), CityIndex(g.city_to), g.week_day, g.time>>
    IN  \E i \in 1..4 : (\A j \in 1..(i - 1) : kf[j] = kg[j]) /\ kf[i] < kg[i]

RECURSIVE sort_values(_)
sort_values(rows) ==
    IF rows = {} THEN <<>>
    ELSE LET first == CHOOSE f \in rows : \A g \in rows \ {f} : RowBefore(f, g) \/ ~RowBefore(g, f)
         IN  <<first>> \o sort_values(rows \ {first})

\* --------------------------- find_flights ------------------------------
\* flights[(flights.city_from == a) & (flights.city_to == b)]
FlightsOfPair(table, a, b) ==
    SelectSeq(table, LAMBDA f : f.city_from = a /\ f.city_to = b)

\* the minimum interval for a transfer (line 169)
transfer_interval_omitted == timedelta(0, 0, 0)
transfer_interval == timedelta(0, 3, 0)

\* the correction of line 191-192 when the next flight is in the next week
week_correction_omitted(same_week) == 0
week_correction(same_week) ==
    IF Len(same_week) = 0 THEN timedelta(7, 0, 0) ELSE 0

\* options.iloc[0] of line 182 raises IndexError on an empty table
IndexError(table, origin_city, destination_city) ==
    Len(FlightsOfPair(table, origin_city, destination_city)) = 0

\* find_nearest_flight, for a pair that has a flight. The result holds the
\* returned tuple (connection_flight, time_pos, total_price) and the values of
\* the locals the call went through.
find_nearest_flight(table, graph, origin_city, destination_city, time_pos, total_price) ==
    LET time_pos1 == time_pos + transfer_interval
        dhm == timedelta_to_day_hour_minutes(time_pos1)
        day == dhm[1]
        hours == dhm[2]
        minutes == dhm[3]
        options0 == FlightsOfPair(table, origin_city, destination_city)
        same_week == SelectSeq(options0,
                        LAMBDA f : f.week_day >= day /\ f.time >= timedelta(0, hours, minutes))
        options == IF Len(same_week) > 0 THEN same_week ELSE options0
        flight == options[1]
        gap == timedelta(flight.week_day, 0, 0) + flight.time
                  - timedelta(day, hours, minutes) + week_correction(same_week)
        time_pos2 == time_pos1 + gap
        time_pos3 == time_pos2 + graph[origin_city][destination_city]
    IN  [connection_flight |-> [city |-> origin_city, week_day |-> flight.week_day,
                                time |-> flight.time],
         time_pos |-> time_pos3,
         total_price |-> total_price + flight.price,
         \* locals
         origin |-> origin_city, destination |-> destination_city,
         arrived |-> time_pos, allowed |-> time_pos1,
         day |-> day, hours |-> hours, minutes |-> minutes,
         same_week |-> Len(same_week),
         departure |-> time_pos2]

start_options == FlightsOfPair(flights, path[1], path[2])

\* line 126-145: the next first-leg flight opens an option
StartOption ==
    /\ pc = "find_flights"
    /\ index < Len(start_options)
    /\ LET row == start_options[index + 1]
           day == row.week_day
           hours == td_seconds(row.time) \div 3600
           minutes == (td_seconds(row.time) \div 60) % 60
           st == timedelta(day, hours, minutes)
           flight_duration == routes[path[1]][path[2]]
       IN  /\ day \in week_days
           /\ city_from' = path[1]
           /\ city_to' = path[2]
           /\ this_option_price' = row.price
           /\ this_option_flights' = <<[city |-> path[1], week_day |-> day,
                                        time |-> timedelta(0, hours, minutes)]>>
           /\ start_time' = st
           /\ time_since_start' = st + flight_duration
           /\ legs' = <<[origin |-> path[1], destination |-> path[2],
                         arrived |-> st, allowed |-> st, day |-> day,
                         hours |-> hours, minutes |-> minutes, same_week |-> 1,
                         departure |-> st, arrival |-> st + flight_duration,
                         week_day |-> day, time |-> row.time]>>
    /\ pos' = 2
    /\ pc' = "connections"
    /\ UNCHANGED <<routes, flights, path, routeVars, index, available_flights, log>>

\* line 149-156: one turn of the while loop, a connecting leg
NextConnection ==
    /\ pc = "connections"
    /\ pos < Len(path)
    /\ ~IndexError(flights, city_to, path[pos + 1])
    /\ LET r == find_nearest_flight(flights, routes, city_to, path[pos + 1],
                                    time_since_start, this_option_price)
       IN  /\ time_since_start' = r.time_pos
           /\ this_option_price' = r.total_price
           /\ this_option_flights' = Append(this_option_flights, r.connection_flight)
           /\ legs' = Append(legs,
                        [origin |-> r.origin, destination |-> r.destination,
                         arrived |-> r.arrived, allowed |-> r.allowed, day |-> r.day,
                         hours |-> r.hours, minutes |-> r.minutes,
                         same_week |-> r.same_week,
                         departure |-> r.departure, arrival |-> r.time_pos,
                         week_day |-> r.connection_flight.week_day,
                         time |-> r.connection_flight.time])
    /\ city_from' = city_to
    /\ city_to' = path[pos + 1]
    /\ pos' = pos + 1
    /\ UNCHANGED <<routes, flights, pc, path, routeVars, index, start_time,
                   available_flights, log>>

\* line 182 on a pair without flights: the exception ends the program
RaiseIndexError ==
    /\ pc = "connections"
    /\ pos < Len(path)
    /\ IndexError(flights, city_to, path[pos + 1])
    /\ pc' = "IndexError"
    /\ UNCHANGED <<routes, flights, path, routeVars, flightVars>>

\* line 158-160: the option is complete
AppendOption ==
    /\ pc = "connections"
    /\ pos >= Len(path)
    /\ LET travel_time == time_since_start - start_time
       IN  available_flights' = Append(available_flights,
                [flights |-> this_option_flights, price |-> this_option_price,
                 travel_time |-> travel_time])
    /\ log' = Append(log, legs)
    /\ index' = index + 1
    /\ pc' = "find_flights"
    /\ UNCHANGED <<routes, flights, path, routeVars, pos, city_from, city_to,
                   start_time, time_since_start, this_option_price,
                   this_option_flights, legs>>

\* line 162, and the printing of lines 293-297
Return ==
    /\ pc = "find_flights"
    /\ index >= Len(start_options)
    /\ pc' = "done"
    /\ UNCHANGED <<routes, flights, path, routeVars, flightVars>>

FindFlightsNext == StartOption \/ NextConnection \/ AppendOption \/ Return

\* ---------------------------- the network -------------------------------
\* routes after add_route has added the edges E (each a set of two cities)
\* with the durations dur[e]
MakeRoutes(E, dur) ==
    LET keys == UNION E
    IN  [c \in keys |-> [n \in {m \in keys : {c, m} \in E} |-> dur[{c, n}]]]

\* the timetable after line 235: make_schedule for every edge, drawn with the
\* origin o[e], the departures slots[e] and the markup pct, then sorted
MakeFlights(E, dur, o, slots, pct) ==
    sort_values(UNION {make_schedule(o[e], CHOOSE m \in e : m # o[e], dur[e],
                                     slots[e], pct) : e \in E})

\* routes is a defaultdict: routes[c] of a missing key is an empty dict
neighbours(graph, c) == IF c \in DOMAIN graph THEN DOMAIN graph[c] ELSE {}

Slots == WeekDaySlots \X TimeSlots

SlotSets(least) ==
    {S \in SUBSET Slots : Cardinality(S) >= least /\ Cardinality(S) <= MaxFlights}

timedelta_to_formatted_string(td) ==
    <<td_seconds(td) \div 3600, (td_seconds(td) \div 60) % 60>>

Reverse(s) == [i \in 1..Len(s) |-> s[Len(s) + 1 - i]]

\* --------------------------- route search -------------------------------
\* line 247
not_in_routes_both(start, end) ==
    start \notin DOMAIN routes /\ end \notin DOMAIN routes
not_in_routes(start, end) ==
    start \notin DOMAIN routes \/ end \notin DOMAIN routes

\* queue.popleft(): the city taken and the queue left
pop(q) == [v |-> q[Len(q)], rest |-> SubSeq(q, 1, Len(q) - 1)]
popleft(q) == [v |-> Head(q), rest |-> Tail(q)]

\* the path of line 289
reversed(p) == Reverse(p)

\* line 247-248
RejectInput ==
    /\ pc = "input"
    /\ not_in_routes(start_vertex, end_vertex)
    /\ output' = "NotFound"
    /\ pc' = "done"
    /\ UNCHANGED <<routes, flights, path, start_vertex, end_vertex, n_routes, queue,
                   parents, path_exists, cur_v, pending, parent, next_city,
                   total_time_on_board, flightVars>>

\* line 252-257
StartSearch ==
    /\ pc = "input"
    /\ ~not_in_routes(start_vertex, end_vertex)
    /\ n_routes' = [c \in DOMAIN routes \cup {start_vertex} |->
                        IF c = start_vertex THEN 0 ELSE NoHops]
    /\ queue' = <<start_vertex>>
    /\ parents' = [c \in DOMAIN routes |-> None]
    /\ path_exists' = FALSE
    /\ pc' = "while"
    /\ UNCHANGED <<routes, flights, path, start_vertex, end_vertex, cur_v, pending,
                   parent, next_city, total_time_on_board, output, flightVars>>

\* line 259-260
Dequeue ==
    /\ pc = "while"
    /\ queue # <<>> /\ ~path_exists
    /\ cur_v' = popleft(queue).v
    /\ queue' = popleft(queue).rest
    /\ pending' = neighbours(routes, cur_v')
    /\ pc' = "for"
    /\ UNCHANGED <<routes, flights, path, start_vertex, end_vertex, n_routes, parents,
                   path_exists, parent, next_city, total_time_on_board, output,
                   flightVars>>

\* line 262-271: the for loop visits one more neighbour of cur_v; the order of
\* a dict is the order of insertion, which the random generation decides
Visit ==
    /\ pc = "for"
    /\ \E neigh_v \in pending :
          /\ pending' = pending \ {neigh_v}
          /\ IF n_routes[neigh_v] = NoHops
             THEN /\ n_routes' = [n_routes EXCEPT ![neigh_v] = n_routes[cur_v] + 1]
                  /\ parents' = [parents EXCEPT ![neigh_v] = cur_v]
                  /\ queue' = Append(queue, neigh_v)
                  /\ IF neigh_v = end_vertex
                     THEN path_exists' = TRUE /\ pc' = "while"
                     ELSE path_exists' = path_exists /\ pc' = pc
             ELSE UNCHANGED <<n_routes, parents, queue, path_exists, pc>>
    /\ UNCHANGED <<routes, flights, path, start_vertex, end_vertex, cur_v, parent,
                   next_city, total_time_on_board, output, flightVars>>

\* the for loop of line 262 is exhausted
EndFor ==
    /\ pc = "for"
    /\ pending = {}
    /\ pc' = "while"
    /\ UNCHANGED <<routes, flights, path, routeVars, flightVars>>

\* line 273-274
NotFound ==
    /\ pc = "while"
    /\ ~(queue # <<>> /\ ~path_exists)
    /\ ~path_exists
    /\ output' = "NotFound"
    /\ pc' = "done"
    /\ UNCHANGED <<routes, flights, path, start_vertex, end_vertex, n_routes, queue,
                   parents, path_exists, cur_v, pending, parent, next_city,
                   total_time_on_board, flightVars>>

\* line 276-281
StartRebuild ==
    /\ pc = "while"
    /\ ~(queue # <<>> /\ ~path_exists)
    /\ path_exists
    /\ path' = <<end_vertex>>
    /\ parent' = parents[end_vertex]
    /\ next_city' = end_vertex
    /\ total_time_on_board' = timedelta(0, 0, 0)
    /\ pc' = "rebuild"
    /\ UNCHANGED <<routes, flights, start_vertex, end_vertex, n_routes, queue,
                   parents, path_exists, cur_v, pending, output, flightVars>>

\* line 283-287
RebuildStep ==
    /\ pc = "rebuild"
    /\ parent # None
    /\ path' = Append(path, parent)
    /\ total_time_on_board' = total_time_on_board + routes[parent][next_city]
    /\ next_city' = parent
    /\ parent' = parents[parent]
    /\ UNCHANGED <<routes, flights, pc, start_vertex, end_vertex, n_routes, queue,
                   parents, path_exists, cur_v, pending, output, flightVars>>

\* line 289-291, up to the call of find_flights (line 115-124)
FinishRebuild ==
    /\ pc = "rebuild"
    /\ parent = None
    /\ path' = reversed(path)
    /\ total_time_on_board' = timedelta_to_formatted_string(total_time_on_board)
    /\ output' = "route"
    /\ pc' = "find_flights"
    /\ UNCHANGED <<routes, flights, start_vertex, end_vertex, n_routes, queue,
                   parents, path_exists, cur_v, pending, parent, next_city,
                   flightVars>>

RouteNext ==
    \/ RejectInput \/ StartSearch \/ Dequeue \/ Visit \/ EndFor
    \/ NotFound \/ StartRebuild \/ RebuildStep \/ FinishRebuild

\* ------------------------- specifications -------------------------------
\* the time on board of a path: the sum of the durations of its edges
RECURSIVE PathDuration(_, _)
PathDuration(graph, p) ==
    IF Len(p) < 2 THEN 0
    ELSE graph[p[1]][p[2]] + PathDuration(graph, Tail(p))

\* the locals of find_flights before its first assignment
FlightLocalsUnset ==
    /\ index = 0 /\ pos = 0
    /\ city_from = None /\ city_to = None
    /\ start_time = 0 /\ time_since_start = 0
    /\ this_option_price = 0
    /\ this_option_flights = <<>>
    /\ available_flights = <<>>
    /\ legs = <<>> /\ log = <<>>

EdgeSets ==
    {E \in SUBSET {e \in SUBSET RouteCities : Cardinality(e) = 2} :
        Cardinality(E) >= 1 /\ Cardinality(E) <= MaxEdges}

FirstCity(e) == CHOOSE c \in e : \A m \in e : CityIndex(c) <= CityIndex(m)

\* the shortest and the longest of the durations drawn
ShortFlight == CHOOSE d \in Durations : \A x \in Durations : d <= x
LongFlight == CHOOSE d \in Durations : \A x \in Durations : d >= x

\* The whole script. The network is any set of 1..MaxEdges edges over
\* RouteCities, the edges from the first city of `cities` long and the others
\* short; every edge has one flight a week each way.
Init ==
    /\ \E E \in EdgeSets, pct \in Markups :
          LET dur == [e \in E |-> IF cities[1] \in e THEN LongFlight ELSE ShortFlight]
              s == CHOOSE x \in Slots : TRUE
          IN  /\ routes = MakeRoutes(E, dur)
              /\ flights = MakeFlights(E, dur, [e \in E |-> FirstCity(e)],
                                       [e \in E |-> {s}], pct)
    /\ start_vertex \in RouteCities
    /\ end_vertex \in RouteCities
    /\ pc = "input"
    /\ n_routes = <<>> /\ queue = <<>> /\ parents = <<>>
    /\ path_exists = FALSE
    /\ cur_v = None /\ pending = {}
    /\ path = <<>> /\ parent = None /\ next_city = None
    /\ total_time_on_board = 0
    /\ output = "none"
    /\ FlightLocalsUnset

Next == RouteNext \/ FindFlightsNext

Spec == Init /\ [][Next]_vars

\* find_flights alone, called (line 291) with the path of a chain of cities
\* whose edges have 1..MaxFlights departures a week; the route variables
\* hold what the search for that path leaves behind.
ChainInit(least) ==
    /\ \E n \in 2..Len(ChainCities) :
          LET p == SubSeq(ChainCities, 1, n)
              E == {{p[i], p[i + 1]} : i \in 1..(n - 1)}
          IN  /\ path = p
              /\ \E dur \in [E -> Durations], sl \in [E -> SlotSets(least)],
                    pct \in Markups :
                    /\ routes = MakeRoutes(E, dur)
                    /\ flights = MakeFlights(E, dur, [e \in E |-> FirstCity(e)], sl, pct)
                    /\ total_time_on_board =
                          timedelta_to_formatted_string(PathDuration(MakeRoutes(E, dur), p))
              /\ start_vertex = p[1]
              /\ end_vertex = p[n]
              /\ n_routes = [c \in {p[i] : i \in 1..n} |-> CityIndex(c) - 1]
              /\ parents = [c \in {p[i] : i \in 1..n} |->
                               IF c = p[1] THEN None ELSE cities[CityIndex(c) - 1]]
              /\ queue = <<p[n]>>
              /\ cur_v = p[n - 1]
              /\ next_city = p[1]
    /\ path_exists = TRUE
    /\ pending = {}
    /\ parent = None
    /\ output = "route"
    /\ pc = "find_flights"
    /\ FlightLocalsUnset

InitFlights == ChainInit(1)

SpecFlights == InitFlights /\ [][FindFlightsNext]_vars

\* find_flights on a timetable in which a direction of an edge may have no
\* flight at all
InitSparse == ChainInit(0)

NextSparse == FindFlightsNext \/ RaiseIndexError

SpecSparse == InitSparse /\ [][NextSparse]_vars

\* ------------------------------ claims ----------------------------------
\* the cities within k hops of s
RECURSIVE Within(_, _, _)
Within(graph, s, k) ==
    IF k = 0 THEN {s}
    ELSE LET B == Within(graph, s, k - 1)
         IN  B \cup UNION {neighbours(graph, c) : c \in B}

Reachable(graph, s, e) == e \in Within(graph, s, Cardinality(DOMAIN graph))

\* the true graph distance of two connected cities
Dist(graph, s, e) ==
    CHOOSE k \in 0..Cardinality(DOMAIN graph) :
        /\ e \in Within(graph, s, k)
        /\ \A j \in 0..(k - 1) : e \notin Within(graph, s, j)

InGraph == start_vertex \in DOMAIN routes /\ end_vertex \in DOMAIN routes

NoPath == ~InGraph \/ ~Reachable(routes, start_vertex, end_vertex)

\* the route search is over
RouteFinished == pc \in {"find_flights", "connections", "done"}

\* every option built so far, each the sequence of its legs
Options == IF legs = <<>> THEN log ELSE Append(log, legs)

\* the connecting legs (the calls of find_nearest_flight) made so far
ConnectingLegs ==
    UNION {{Options[j][i] : i \in 2..Len(Options[j])} : j \in 1..Len(Options)}

\* arrival + 3h as a point of the week: weekday 1..7 and minutes of the day
AllowedDay(l) == ((td_days(l.allowed) - 1) % 7) + 1
AllowedTime(l) == l.allowed % 1440

\* C1: a connecting leg takes the first flight of its pair whose (weekday, time)
\* is >= arrival + 3h as an ordered pair, and the first flight of the pair only
\* when there is none
C1_FirstFlightNotBefore ==
    \A l \in ConnectingLegs :
        LET opts == FlightsOfPair(flights, l.origin, l.destination)
            later == SelectSeq(opts, LAMBDA f :
                        \/ f.week_day > AllowedDay(l)
                        \/ f.week_day = AllowedDay(l) /\ f.time >= AllowedTime(l))
            expected == IF Len(later) > 0 THEN later[1] ELSE opts[1]
        IN  l.week_day = expected.week_day /\ l.time = expected.time

\* C2: for distinct connected cities the search ends with a path from start to
\* end over edges of the graph whose number of edges is the graph distance
C2_ShortestPath ==
    (RouteFinished /\ InGraph /\ start_vertex # end_vertex
        /\ Reachable(routes, start_vertex, end_vertex))
    => /\ output = "route"
       /\ path[1] = start_vertex
       /\ path[Len(path)] = end_vertex
       /\ \A i \in 1..(Len(path) - 1) : path[i + 1] \in neighbours(routes, path[i])
       /\ Len(path) - 1 = Dist(routes, start_vertex, end_vertex)

\* the network is a ring of five cities and the route found has two hops: the
\* other way round has three
C2_Witness ==
    /\ pc = "done" /\ output = "route"
    /\ Len(path) = 3
    /\ Cardinality(DOMAIN routes) = 5
    /\ \A c \in DOMAIN routes : Cardinality(neighbours(routes, c)) = 2

\* C3: the departure of a connecting leg is the first instant at or after
\* arrival + 3h at which the chosen flight leaves: the wait beyond the 3h is
\* >= 0 and < 7 days, and the departure is at the flight's weekday and time
C3_WaitWithinWeek ==
    \A l \in ConnectingLegs :
        /\ l.departure - l.allowed >= 0
        /\ l.departure - l.allowed < timedelta(7, 0, 0)
        /\ (l.departure - timedelta(l.week_day, 0, 0) - l.time) % timedelta(7, 0, 0) = 0

\* C4: of two calls of find_nearest_flight for the same pair, the one with the
\* earlier arrival does not get the later departure
C4_Monotonic ==
    \A l1 \in ConnectingLegs, l2 \in ConnectingLegs :
        (l1.origin = l2.origin /\ l1.destination = l2.destination
            /\ l1.arrived <= l2.arrived)
        => l1.departure <= l2.departure

\* C5: the search from a city of the graph to itself ends with the one-city path
C5_SelfRoute ==
    (pc = "done" /\ start_vertex = end_vertex /\ start_vertex \in DOMAIN routes)
    => (output = "route" /\ path = <<start_vertex>>)

C7_Options ==
    /\ Len(available_flights) <= Len(start_options)
    /\ \A i \in 1..Len(available_flights) :
          /\ i <= Len(start_options)
          /\ available_flights[i].flights[1] =
                [city |-> path[1], week_day |-> start_options[i].week_day,
                 time |-> start_options[i].time]
          /\ available_flights[i].travel_time >= PathDuration(routes, path)

\* find_flights has returned two options for a path of three legs, one of them
\* with a layover
C7_Witness ==
    /\ pc = "done"
    /\ Len(path) = 4
    /\ Len(available_flights) = 2
    /\ \E i \in 1..2 : available_flights[i].travel_time > PathDuration(routes, path)

\* the search moves on, with NoPath, to a state of lower rank
SearchRank ==
    LET m == 2 * Cardinality(RouteCities) + 3
        unset == Cardinality({c \in DOMAIN n_routes : n_routes[c] = NoHops})
    IN  IF pc = "done" THEN 0
        ELSE IF pc = "input" THEN (Cardinality(RouteCities) + 2) * m
        ELSE 1 + (unset + Len(queue)) * m + 2 * Cardinality(pending)
               + (IF pc = "for" THEN 1 ELSE 0)

C8_Safety ==
    /\ NoPath => pc \in {"input", "while", "for", "done"} /\ output # "route"
    /\ (NoPath /\ pc # "done") => ENABLED Next
    /\ (pc = "done" /\ ~InGraph)
          => output = "NotFound" /\ cur_v = None /\ queue = <<>> /\ n_routes = <<>>
    /\ (pc = "done" /\ InGraph /\ NoPath)
          => output = "NotFound" /\ cur_v # None /\ queue = <<>>

\* C8: without a path the search ends with NotFound: at once, with no step of
\* the traversal, when a city is not in the graph, and with an empty queue when
\* the cities are not connected; it never produces a route
C8_NotFound ==
    /\ []C8_Safety
    /\ [][NoPath => SearchRank' < SearchRank]_vars

\* both cities are in the graph, in different components, and the search has
\* ended after leaving the start city
C8_Witness ==
    /\ pc = "done" /\ output = "NotFound"
    /\ InGraph /\ NoPath
    /\ cur_v # start_vertex

\* C9: in every option a connecting leg leaves >= 3h after the arrival of the
\* leg before, every leg arrives its flight duration after it leaves, and the
\* running time never decreases
C9_Legs ==
    /\ \A j \in 1..Len(Options) :
          LET o == Options[j]
          IN  \A i \in 1..Len(o) :
                 /\ o[i].arrival = o[i].departure + routes[o[i].origin][o[i].destination]
                 /\ i > 1 => /\ o[i].arrived = o[i - 1].arrival
                             /\ o[i].departure >= o[i - 1].arrival + timedelta(0, 3, 0)
                             /\ o[i].arrival >= o[i - 1].arrival
    /\ pc = "connections" => time_since_start = legs[Len(legs)].arrival

\* an option of three legs whose second leg waits for the next week
C9_Witness ==
    \E j \in 1..Len(log) :
        /\ Len(log[j]) = 3
        /\ log[j][2].same_week = 0
        /\ log[j][2].departure > log[j][1].arrival + timedelta(0, 3, 0)

\* C10: timedelta_to_day_hour_minutes gives a weekday 1..7 and an hour 0..23
\* that are the same point of the week as the instant
C10_WeekPoint ==
    \A l \in ConnectingLegs :
        /\ l.day \in 1..7
        /\ l.hours \in 0..23
        /\ timedelta(l.day % 7, l.hours, l.minutes) = l.allowed % timedelta(7, 0, 0)

====
